---- MODULE Spec2Model ----
(***************************************************************************)
(* Model of the moderation core of BotCore: the duration parser, the       *)
(* fire-and-forget automatic unban task and the muted_users table          *)
(* (src/BotCore/commands/moderation.py).                                   *)
(*                                                                         *)
(* Time is counted in whole seconds from the instant the model starts.     *)
(* Strings are sequences of one-character strings.  A Python dict is a set *)
(* of entries, one per key, maintained by DictSet and DictDel.             *)
(*                                                                         *)
(* Platform calls (member.ban, guild.unban, member.timeout) succeed or     *)
(* raise; which one happens is an input of the action that makes the call. *)
(* send_embed and _log_command change none of the state modelled here and  *)
(* are taken to return normally (both wrap their work in try/except).      *)
(*                                                                         *)
(* The module also models the process around the commands: start-up and    *)
(* the restart loop (main.py, config.py), the periodic ping_task that      *)
(* publishes the status snapshot (bot.py) and the web endpoints that read  *)
(* it from another thread (keep_alive.py).                                 *)
(***************************************************************************)
EXTENDS Integers, Sequences, FiniteSets, TLC

VARIABLES
    now,            \* the UTC clock, seconds since the start of the model
    banned,         \* the guild's ban list on the platform
    epoch,          \* per user: how many bans have been applied so far
    muted_users,    \* ModerationCommands.muted_users, a dict keyed by member id
    tasks,          \* the _schedule_unban tasks created so far, in creation order
    calls,          \* per user: the guild.unban calls made to the platform, in order
    logged,         \* tasks whose except branch called logger.error
    last,           \* the outcome of the most recent command handler
    ncmd,           \* number of command handlers run so far
    duration_str,   \* the argument of the parser call under test
    parsed,         \* the result of that call
    token,          \* the DISCORD_TOKEN environment variable
    proc,           \* where the main thread of the process is
    running,        \* BotSystem.running
    flask_thread,   \* whether the web server thread has been started
    depth,          \* number of Python frames on the main thread's stack
    restarts,       \* the sleep, in seconds, of every restart_bot call so far
    attempts,       \* number of connections to the platform attempted
    ping_task,      \* the tasks.loop running AdvancedDiscordBot.ping_task
    status_updater, \* the tasks.loop running AdvancedDiscordBot.status_updater
    bot_status,     \* keep_alive.bot_status, the published snapshot
    updating,       \* where update_bot_status is in the bot's thread
    posting,        \* where api_ping is in the web thread, and its request body
    published,      \* the publications update_bot_status has completed
    page,           \* the last response of a web endpoint
    handlers,       \* the ErrorHandler objects: error_count and error_history
    nerr,           \* number of errors handed to an ErrorHandler so far
    channel,        \* number of messages in the channel /clear is used in
    purged          \* the last channel.purge call of /clear

\* The state of the moderation commands, and of the process around them
cmdvars == <<banned, epoch, muted_users, tasks, calls, logged, last, ncmd,
             duration_str, parsed>>

auxvars == <<handlers, nerr, channel, purged>>

modvars == <<cmdvars, auxvars>>

sysvars == <<token, proc, running, flask_thread, depth, restarts, attempts,
             ping_task, status_updater, bot_status, updating, posting,
             published, page>>

vars == <<now, modvars, sysvars>>

-----------------------------------------------------------------------------
(* Bounds of the model *)

MaxTime == 2
MaxCmds == 3
MaxTasks == 2
MaxLen == 3

Users == {"u1", "u2"}
\* The (reason, issuing moderator) pairs the mute command is given
Issuers == {[reason |-> "spam", moderator |-> "mod1"],
            [reason |-> "flood", moderator |-> "mod2"]}

-----------------------------------------------------------------------------
(* Strings *)

Digits == {"0", "1", "2", "3", "4", "5", "6", "7", "8", "9"}

DigitVal(c) ==
    CASE c = "0" -> 0 [] c = "1" -> 1 [] c = "2" -> 2 [] c = "3" -> 3
      [] c = "4" -> 4 [] c = "5" -> 5 [] c = "6" -> 6 [] c = "7" -> 7
      [] c = "8" -> 8 [] c = "9" -> 9

\* str.lower() on the characters the model uses
LowerChar(c) ==
    CASE c = "S" -> "s" [] c = "M" -> "m" [] c = "H" -> "h" [] c = "D" -> "d"
      [] OTHER -> c

str_lower(s) == [i \in 1..Len(s) |-> LowerChar(s[i])]

\* int() of a string of decimal digits
RECURSIVE int(_)
int(ds) ==
    IF ds = <<>> THEN 0
    ELSE 10 * int(SubSeq(ds, 1, Len(ds) - 1)) + DigitVal(ds[Len(ds)])

NoMatch == [ok |-> FALSE, digits |-> <<>>, unit |-> ""]

\* re.match(r'^(\d+)([smhd])$', s): in Python '$' matches at the end of the
\* string and also just before a newline that ends the string.
re_match(s) ==
    LET core == IF Len(s) > 0 /\ s[Len(s)] = "\n"
                THEN SubSeq(s, 1, Len(s) - 1) ELSE s
        n == Len(core)
    IN  IF /\ n >= 2
           /\ \A i \in 1..(n - 1) : core[i] \in Digits
           /\ core[n] \in {"s", "m", "h", "d"}
        THEN [ok |-> TRUE, digits |-> SubSeq(core, 1, n - 1), unit |-> core[n]]
        ELSE NoMatch

-----------------------------------------------------------------------------
(* datetime and timedelta arithmetic *)

SecondsPerDay == 86400
TimedeltaMaxDays == 999999999      \* timedelta.max.days
DateMaxOrdinal == 3652059          \* datetime.max.toordinal(), 9999-12-31
ClockOrdinal == 739926             \* the calendar day on which instant 0 falls

UnitLength(unit) ==
    CASE unit = "s" -> 1 [] unit = "m" -> 60 [] unit = "h" -> 3600
      [] unit = "d" -> SecondsPerDay

\* timedelta(<unit>=amount) normalised to whole days and the seconds left over
DeltaDays(amount, unit) ==
    CASE unit = "s" -> amount \div SecondsPerDay
      [] unit = "m" -> amount \div 1440
      [] unit = "h" -> amount \div 24
      [] unit = "d" -> amount

DeltaSeconds(amount, unit) ==
    CASE unit = "s" -> amount % SecondsPerDay
      [] unit = "m" -> (amount % 1440) * 60
      [] unit = "h" -> (amount % 24) * 3600
      [] unit = "d" -> 0

\* timedelta(...) raises OverflowError beyond timedelta.max; datetime + timedelta
\* raises OverflowError when the day of the sum lies after datetime.max.
Overflows(clock, amount, unit) ==
    \/ DeltaDays(amount, unit) > TimedeltaMaxDays
    \/ ClockOrdinal + DeltaDays(amount, unit)
         + ((clock + DeltaSeconds(amount, unit)) \div SecondsPerDay) > DateMaxOrdinal

None == [kind |-> "None", t |-> 0]
Unset == [kind |-> "unset", t |-> 0]
Raised(exc) == [kind |-> exc, t |-> 0]
Datetime(t) == [kind |-> "datetime", t |-> t]

\* Python truth value of what _parse_duration returns: None is false, every
\* datetime is true.
Truthy(v) == v.kind = "datetime"

\* _parse_duration(duration_str) called when the clock reads 'clock'
parse_duration(s, clock) ==
    IF s = <<>> THEN None
    ELSE LET m == re_match(str_lower(s))
         IN  IF ~m.ok THEN None
             ELSE LET amount == int(m.digits)
                      unit == m.unit
                  IN  IF Overflows(clock, amount, unit)
                      THEN Raised("OverflowError")
                      ELSE Datetime(clock + amount * UnitLength(unit))

-----------------------------------------------------------------------------
(* dict operations *)

\* k in d
DictHas(d, k) == \E e \in d : e.id = k

\* Faulty variant: the entry is left in the dict.
DictDel_keep(d, k) == d

\* del d[k]
DictDel(d, k) == {e \in d : e.id # k}

\* Faulty variant: the entry is added without replacing the one stored under the key.
DictSet_append(d, k, v) ==
    d \cup {[id |-> k, until |-> v.until, reason |-> v.reason,
             moderator |-> v.moderator]}

DictSet(d, k, v) ==
    {e \in d : e.id # k}
      \cup {[id |-> k, until |-> v.until, reason |-> v.reason,
             moderator |-> v.moderator]}

-----------------------------------------------------------------------------
(* The platform and the scheduled tasks *)

TaskIds == 1..MaxTasks

Pending(i) == i \in DOMAIN tasks /\ tasks[i].pc \in {"created", "sleeping", "ready"}

PendingFor(u) == {i \in DOMAIN tasks : Pending(i) /\ tasks[i].user = u}

\* What guild.unban(user) can do: it lifts the ban, or the platform refuses;
\* a user who is not banned is reported as discord.NotFound.
UnbanOutcomes(u) ==
    IF u \in banned THEN {"ok", "Forbidden"} ELSE {"NotFound"}

\* Faulty variant: a non-positive delay is taken as nothing to wait for and
\* the task is abandoned.
asyncio_sleep_drop(delay) == IF delay <= 0 THEN "dropped" ELSE "sleeping"

\* await asyncio.sleep(delay): a delay of zero or less yields once to the
\* event loop and resumes; a positive delay suspends until it has elapsed.
asyncio_sleep(delay) == IF delay <= 0 THEN "ready" ELSE "sleeping"

\* The sign of a delay is all the model keeps of it once the sleep has begun.
Sign(x) == IF x < 0 THEN -1 ELSE IF x = 0 THEN 0 ELSE 1

\* Faulty variant: the sleep is taken to be over at once.
SleepOver_atonce(t, clock) == TRUE

\* A task that went to sleep for unban_time - now seconds can resume once
\* the clock has reached unban_time.
SleepOver(t, clock) == clock >= t.unban_time

\* Faulty variant: only discord.NotFound is caught.
ExceptCatches_notfound(exc) == exc = "NotFound"

\* How the table held the member before a command ran: not at all, with
\* exactly the entry v, or with another entry.
Held(d, k, v) ==
    IF ~(\E e \in d : e.id = k) THEN "absent"
    ELSE IF [id |-> k, until |-> v.until, reason |-> v.reason,
             moderator |-> v.moderator] \in d THEN "same"
    ELSE "other"

\* 'except Exception' of _schedule_unban: every error of the unban call.
ExceptCatches(exc) == exc \in {"NotFound", "Forbidden"}

\* What a command handler did.  permitted tells whether the invoking
\* user held the permission the command asks for.
Outcome(permitted, op, user, result) ==
    [op |-> op, user |-> user, result |-> result, until |-> 0,
     reason |-> "", moderator |-> "", had |-> "absent", steps |-> <<>>,
     permitted |-> permitted]

\* What a successful /ban does, in program order: the duration is parsed when
\* one is given, member.ban is awaited, the confirmation embed is sent, the
\* automatic unban is created when there is an expiry, the command is logged.
ban_steps(ban_until) ==
    (IF Truthy(ban_until) THEN <<"parsed">> ELSE <<>>)
      \o <<"member.ban", "confirmation">>
      \o (IF Truthy(ban_until) THEN <<"create_task">> ELSE <<>>)
      \o <<"_log_command">>

\* What a successful /mute does, in program order
mute_steps ==
    <<"parsed", "member.timeout", "muted_users", "confirmation", "_log_command">>

\* The steps of a handler up to and including the platform call that raised
RECURSIVE failed_steps(_, _)
failed_steps(steps, call) ==
    IF steps = <<>> THEN <<>>
    ELSE IF Head(steps) = call THEN <<call>>
    ELSE <<Head(steps)>> \o failed_steps(Tail(steps), call)

NoOutcome == Outcome(TRUE, "none", "", "")

\* Faulty variant: the record is stored before the platform call is awaited.
timeout_then_store_early(d, member, entry, timeout_exc) ==
    DictSet(d, member, entry)

\* await member.timeout(...) and then self.muted_users[member.id] = {...}:
\* the assignment is reached only when the call has returned.
timeout_then_store(d, member, entry, timeout_exc) ==
    IF timeout_exc = "ok" THEN DictSet(d, member, entry) ELSE d

\* asyncio.create_task(self._schedule_unban(guild, member, ban_until)),
\* only when a duration was given
ArmedTasks(ts, member, ban_until) ==
    IF Truthy(ban_until)
    THEN Append(ts, [user |-> member, unban_time |-> ban_until.t,
                     epoch |-> epoch[member] + 1, pc |-> "created", delay |-> 0,
                     superseded |-> FALSE])
    ELSE ts

\* History kept with the tasks: a task is superseded once its user has been
\* banned again, for good or until a later instant, while the task had not
\* yet reached its unban_time.
Superseded(ts, member, ban_until, clock) ==
    [i \in DOMAIN ts |->
        IF /\ ts[i].user = member
           /\ ts[i].pc \in {"created", "sleeping", "ready"}
           /\ clock < ts[i].unban_time
           /\ (Truthy(ban_until) => ban_until.t > ts[i].unban_time)
        THEN [ts[i] EXCEPT !.superseded = TRUE]
        ELSE ts[i]]

-----------------------------------------------------------------------------
(* The process, the status publisher and the published snapshot *)

MaxClock == 100
MaxPosts == 2

RestartDelay == 10                 \* time.sleep(10) of restart_bot
PingPeriod == 20                   \* @tasks.loop(seconds=20)
OnlineThreshold == 60              \* time_since_ping < 60
RecursionLimit == 1000             \* sys.getrecursionlimit() of CPython

\* The credential is unset, set to a token the platform accepts, or set to
\* one it rejects.
Tokens == {"", "tok", "bad"}

\* Faulty variant: an empty credential passes validation.
validate_config_lenient(tok) == "ok"

\* BotConfig._validate_config: raises ValueError when DISCORD_TOKEN is empty
validate_config(tok) == IF tok = "" THEN "ValueError" ELSE "ok"

\* AdvancedDiscordBot.__init__: BotConfig() validates, then the constructor
\* checks the token once more.
AdvancedDiscordBot(tok) ==
    IF validate_config(tok) # "ok" THEN validate_config(tok)
    ELSE IF tok = "" THEN "ValueError"
    ELSE "ok"

\* How bot.run(token) can end at once: the login is refused, the platform
\* cannot be reached, or the connection is made.
ConnectOutcomes(tok) ==
    IF tok = "bad" THEN {"LoginFailure"} ELSE {"ok", "HTTPException"}

\* 'last_ping': None
NoPing == [set |-> FALSE, t |-> 0, tz |-> ""]

\* datetime.now(timezone.utc).isoformat(): the instant with its UTC offset
isoformat(t) == [set |-> TRUE, t |-> t, tz |-> "+00:00"]

\* datetime.fromisoformat(text.replace('Z', '+00:00')): an aware datetime
\* when the text carries an offset, a naive one otherwise
fromisoformat(text) ==
    [t |-> text.t, aware |-> text.tz \in {"+00:00", "Z"}]

\* The module-level bot_status dict.  seq stands for the values of the
\* fields one publication writes together (online, latency, guilds, users,
\* uptime, stats): it is the number of the publication they come from;
\* ping_seq is the number of the publication that wrote last_ping.
InitialStatus == [online |-> FALSE, last_ping |-> NoPing, seq |-> 0, ping_seq |-> 0]

\* status_data as update_keepalive_status collects it
status_data(n) == [online |-> TRUE, seq |-> n]

\* bot_status.update(status_data)
dict_update(bs, data) ==
    [bs EXCEPT !.online = data.online, !.seq = data.seq,
               !.last_ping = IF "last_ping" \in DOMAIN data
                             THEN data.last_ping ELSE @]

\* Faulty variant: last_ping is written only while the snapshot has none.
stamp_setdefault(bs, clock) ==
    IF bs.last_ping.set THEN [bs EXCEPT !.ping_seq = bs.seq]
    ELSE [bs EXCEPT !.last_ping = [set |-> TRUE, t |-> clock, tz |-> "+00:00"],
                    !.ping_seq = bs.seq]

\* bot_status['last_ping'] = datetime.now(timezone.utc).isoformat()
stamp(bs, clock) ==
    [bs EXCEPT !.last_ping = isoformat(clock), !.ping_seq = bs.seq]

\* Faulty variant: the snapshot counts as fresh up to and including 60 seconds.
status_page_online_inclusive(bs, clock) ==
    IF bs.last_ping.set
    THEN clock - fromisoformat(bs.last_ping).t <= OnlineThreshold
    ELSE FALSE

\* is_online of status_page
status_page_online(bs, clock) ==
    IF bs.last_ping.set
    THEN LET last_ping == fromisoformat(bs.last_ping)
             time_since_ping == clock - last_ping.t
         IN  time_since_ping < OnlineThreshold
    ELSE FALSE

\* time_since_ping of status_page
status_page_age(bs, clock) ==
    IF bs.last_ping.set THEN clock - fromisoformat(bs.last_ping).t ELSE 0

\* What can go wrong while ping_task collects a snapshot: round() of a NaN
\* latency raises ValueError, a guild without member_count makes sum() raise
\* TypeError.
PingFaults == {"ValueError", "TypeError"}

\* Faulty variant: only the platform's HTTP errors are caught.
ping_task_catches_http(exc) == exc = "HTTPException"

\* 'except Exception' of ping_task and of update_keepalive_status
ping_task_catches(exc) == exc \in PingFaults \cup {"HTTPException"}

IdleLoop == [state |-> "idle", due |-> 0, failed |-> FALSE, faulted |-> FALSE]

\* Loop.is_running()
is_running(loop) == loop.state = "running"

\* Loop.start(): the first iteration is due at once
start(loop, clock) == [loop EXCEPT !.state = "running", !.due = clock]

\* Faulty variant: the loop is left as it is.
stop_if_running_noop(loop) == loop

\* if self.<loop>.is_running(): self.<loop>.stop()
stop_if_running(loop) ==
    IF is_running(loop) THEN [loop EXCEPT !.state = "stopped"] ELSE loop

\* if not self.<loop>.is_running(): self.<loop>.start()
start_unless_running(loop, clock) ==
    IF ~is_running(loop) THEN start(loop, clock) ELSE loop

NoPublication == [n |-> 0, at |-> 0]

\* The web thread is not inside api_ping
NoPost == [pc |-> "idle", body |-> "", n |-> 0]

\* The bodies POST /api/ping is sent with: no JSON body at all (no JSON
\* content type), a JSON content type with zero bytes, the empty object, a
\* snapshot, a snapshot that carries a last_ping of its own, and JSON that
\* is not an object.
Bodies == {"absent", "blank", "{}", "status", "stamped", "list"}

\* The last_ping a posted snapshot carries
SuppliedPing == [set |-> TRUE, t |-> 0, tz |-> "Z"]

\* request.get_json(): what it returns (None, a dict, a list) or the HTTP
\* error it raises.  Without a JSON content type Flask returns None up to
\* 2.0 and raises an HTTP error from 2.1 on (BadRequest, later
\* UnsupportedMediaType); bytes that are not JSON raise BadRequest in every
\* version.
get_json(body) ==
    IF body = "absent" THEN {"None", "UnsupportedMediaType"}
    ELSE IF body = "blank" THEN {"BadRequest"}
    ELSE IF body = "{}" THEN {"empty dict"}
    ELSE IF body \in {"status", "stamped"} THEN {"dict"}
    ELSE {"list"}

\* 'if data:' of api_ping
data_truthy(data) == data \in {"dict", "list"}

\* The dict a posted snapshot parses to
posted_data(body, n) ==
    IF body = "stamped"
    THEN [online |-> TRUE, seq |-> n, last_ping |-> SuppliedPing]
    ELSE status_data(n)

Response(route, online, age, seq, ping_seq) ==
    [route |-> route, online |-> online, time_since_ping |-> age,
     seq |-> seq, ping_seq |-> ping_seq, code |-> 200, body |-> ""]

NoPage == Response("", FALSE, 0, 0, 0)

\* The bot is connected and handling commands; nothing published yet.
Connected ==
    /\ token = "tok"
    /\ proc = "connected"
    /\ running = TRUE
    /\ flask_thread = TRUE
    /\ depth = 3
    /\ restarts = <<>>
    /\ attempts = 1
    /\ ping_task = IdleLoop
    /\ status_updater = IdleLoop
    /\ bot_status = InitialStatus
    /\ updating = "idle"
    /\ posting = NoPost
    /\ published = NoPublication
    /\ page = NoPage

-----------------------------------------------------------------------------
(* Error handling (utils/error_handler.py) and the /clear command *)

MaxErrs == 3

HistoryLimit == 100                \* len(self.error_history) > 100
PurgeCap == 100                    \* if amount > 100: amount = 100

\* The two ErrorHandler objects of the process: bot.error_handler, used by
\* on_command_error, and global_error_handler, used by cog_command_error.
Handlers == {"bot", "global"}

\* ErrorHandler.__init__
NewErrorHandler == [error_count |-> 0, error_history |-> <<>>]

\* f"ERR_{int(timestamp)}_{self.error_count}" and
\* f"TASK_ERR_{int(timestamp)}_{self.error_count}"
error_id(prefix, timestamp, count) ==
    [prefix |-> prefix, timestamp |-> timestamp, count |-> count]

\* The dict appended to error_history.  error is the arrival number of the
\* error it describes (which error, of all those raised, this entry is for).
error_info(id, error) == [error_id |-> id, error |-> error]

\* if len(self.error_history) > 100: self.error_history.pop(0)
pop_oldest(history) ==
    IF Len(history) > HistoryLimit THEN Tail(history) ELSE history

\* ErrorHandler.handle_command_error: count, id, append, trim
command_error_handled(eh, clock, error) ==
    LET count == eh.error_count + 1
        id == error_id("ERR", clock, count)
    IN  [error_count |-> count,
         error_history |->
             pop_oldest(Append(eh.error_history, error_info(id, error)))]

\* ErrorHandler.handle_task_error: count, id, append
task_error_handled(eh, clock, error) ==
    LET count == eh.error_count + 1
        id == error_id("TASK_ERR", clock, count)
    IN  [error_count |-> count,
         error_history |-> Append(eh.error_history, error_info(id, error))]

\* An ErrorHandler that has handled n command errors, all in second 0, before
\* the model starts; they carry the arrival numbers 1-n .. 0.
Backlogged(n) ==
    [error_count |-> n,
     error_history |->
         [i \in 1..n |-> error_info(error_id("ERR", 0, i), i - n)]]

Backlog == {0, HistoryLimit - 1, HistoryLimit}

\* No purge call made yet
NoPurge == [amount |-> 0, limit |-> 0, deleted |-> 0, n |-> 0]

-----------------------------------------------------------------------------
(* Initial state *)

\* The duration strings the command handlers are given.  <<>> is the empty
\* argument (for /ban: no duration, a permanent ban).
Huge == <<"9", "9", "9", "9", "9", "9", "9", "d">>

DurationArgs ==
    {<<>>, <<"0", "s">>, <<"1", "S">>, <<"x">>, Huge}

ModerationInit ==
    /\ banned = {}
    /\ epoch = [u \in Users |-> 0]
    /\ muted_users = {}
    /\ tasks = <<>>
    /\ calls = [u \in Users |-> <<>>]
    /\ logged = {}
    /\ last = NoOutcome
    /\ ncmd = 0

MainInit ==
    /\ ModerationInit
    /\ handlers = [h \in Handlers |-> NewErrorHandler]
    /\ nerr = 0
    /\ channel = 0
    /\ purged = NoPurge

Init ==
    /\ now = 0
    /\ MainInit
    /\ Connected
    /\ duration_str = <<>>
    /\ parsed = Unset

-----------------------------------------------------------------------------
(* The clock *)

Tick ==
    /\ now < MaxTime
    /\ now' = now + 1
    /\ UNCHANGED <<banned, epoch, muted_users, tasks, calls, logged, last, ncmd,
                   duration_str, parsed>>
    /\ UNCHANGED <<auxvars, sysvars>>

-----------------------------------------------------------------------------
(* _schedule_unban *)

\* The task starts running: it computes the delay and awaits asyncio.sleep.
TaskStart(i) ==
    /\ i \in DOMAIN tasks
    /\ tasks[i].pc = "created"
    /\ LET delay == tasks[i].unban_time - now
       IN  tasks' = [tasks EXCEPT ![i].delay = Sign(delay),
                                  ![i].pc = asyncio_sleep(delay)]
    /\ UNCHANGED <<now, banned, epoch, muted_users, calls, logged, last, ncmd,
                   duration_str, parsed>>
    /\ UNCHANGED <<auxvars, sysvars>>

\* The sleep is over: guild.unban is called inside try/except.
TaskFire(i) ==
    /\ i \in DOMAIN tasks
    /\ \/ tasks[i].pc = "ready"
       \/ tasks[i].pc = "sleeping" /\ SleepOver(tasks[i], now)
    /\ \E exc \in UnbanOutcomes(tasks[i].user) :
         /\ calls' = [calls EXCEPT ![tasks[i].user] =
                        Append(@, [epoch |-> epoch[tasks[i].user],
                                   by |-> i, exc |-> exc,
                                   early |-> now < tasks[i].unban_time,
                                   racing |-> FALSE])]
         /\ banned' = IF exc = "ok" THEN banned \ {tasks[i].user} ELSE banned
         /\ IF exc = "ok"
            THEN /\ tasks' = [tasks EXCEPT ![i].pc = "done"]
                 /\ logged' = logged
            ELSE IF ExceptCatches(exc)
            THEN /\ tasks' = [tasks EXCEPT ![i].pc = "done"]
                 /\ logged' = logged \cup {i}
            ELSE /\ tasks' = [tasks EXCEPT ![i].pc = "crashed"]
                 /\ logged' = logged
    /\ UNCHANGED <<now, epoch, muted_users, last, ncmd, duration_str, parsed>>
    /\ UNCHANGED <<auxvars, sysvars>>

-----------------------------------------------------------------------------
(* Command handlers *)

CanRun == ncmd < MaxCmds

\* Faulty variant: the permission of the invoking user is not looked at.
Denied_never(perm) == FALSE

\* 'if not interaction.user.guild_permissions.<permission>:' at the top of
\* every command handler
Denied(perm) == ~perm

\* /ban member [duration]
ban_user(perm, member, duration, ban_exc) ==
    /\ CanRun
    /\ member \notin banned
    /\ ncmd' = ncmd + 1
    /\ LET ban_until == IF duration # <<>> THEN parse_duration(duration, now)
                        ELSE None
       IN  IF Denied(perm)
           THEN /\ last' = Outcome(perm, "ban", member, "permission_denied")
                /\ UNCHANGED <<banned, epoch, tasks>>
           ELSE IF duration # <<>> /\ ban_until.kind = "OverflowError"
           THEN /\ last' = Outcome(perm, "ban", member, "error")
                /\ UNCHANGED <<banned, epoch, tasks>>
           ELSE IF duration # <<>> /\ ~Truthy(ban_until)
           THEN /\ last' = Outcome(perm, "ban", member, "invalid_duration")
                /\ UNCHANGED <<banned, epoch, tasks>>
           ELSE IF ban_exc # "ok"
           THEN /\ last' = [Outcome(perm, "ban", member, "error") EXCEPT
                              !.steps = failed_steps(ban_steps(ban_until),
                                                     "member.ban")]
                /\ UNCHANGED <<banned, epoch, tasks>>
           ELSE /\ Truthy(ban_until) =>
                     /\ Len(tasks) < MaxTasks
                     /\ ban_until.t <= MaxTime
                /\ banned' = banned \cup {member}
                /\ epoch' = [epoch EXCEPT ![member] = @ + 1]
                /\ tasks' = ArmedTasks(Superseded(tasks, member, ban_until, now),
                                       member, ban_until)
                /\ last' = [Outcome(perm, "ban", member, "ok") EXCEPT
                              !.steps = ban_steps(ban_until)]
    /\ UNCHANGED <<now, muted_users, calls, logged, duration_str, parsed>>
    /\ UNCHANGED <<auxvars, sysvars>>

\* /unban user_id
unban_user(perm, user_id) ==
    /\ CanRun
    /\ ncmd' = ncmd + 1
    /\ IF Denied(perm)
       THEN /\ last' = Outcome(perm, "unban", user_id, "permission_denied")
            /\ UNCHANGED <<banned, calls>>
       ELSE IF user_id \notin Users
       THEN /\ last' = Outcome(perm, "unban", user_id, "invalid_id")
            /\ UNCHANGED <<banned, calls>>
       ELSE \E exc \in UnbanOutcomes(user_id) :
              /\ calls' = [calls EXCEPT ![user_id] =
                             Append(@, [epoch |-> epoch[user_id],
                                        by |-> 0, exc |-> exc, early |-> FALSE,
                                        racing |-> PendingFor(user_id) # {}])]
              /\ banned' = IF exc = "ok" THEN banned \ {user_id} ELSE banned
              /\ last' = Outcome(perm, "unban", user_id,
                                 IF exc = "ok" THEN "ok"
                                 ELSE IF exc = "NotFound" THEN "not_found"
                                 ELSE "error")
    /\ UNCHANGED <<now, epoch, muted_users, tasks, logged, duration_str, parsed>>
    /\ UNCHANGED <<auxvars, sysvars>>

\* /mute member [duration]
mute_user(perm, member, duration, reason, moderator, timeout_exc) ==
    /\ CanRun
    /\ member \notin banned
    /\ ncmd' = ncmd + 1
    /\ LET mute_until == parse_duration(duration, now)
       IN  IF Denied(perm)
           THEN /\ last' = Outcome(perm, "mute", member, "permission_denied")
                /\ UNCHANGED muted_users
           ELSE IF mute_until.kind = "OverflowError"
           THEN /\ last' = Outcome(perm, "mute", member, "error")
                /\ UNCHANGED muted_users
           ELSE IF ~Truthy(mute_until)
           THEN /\ last' = Outcome(perm, "mute", member, "invalid_duration")
                /\ UNCHANGED muted_users
           ELSE IF timeout_exc # "ok"
           THEN /\ last' = [Outcome(perm, "mute", member, "error") EXCEPT
                              !.steps = failed_steps(mute_steps,
                                                     "member.timeout")]
                /\ muted_users' =
                     timeout_then_store(muted_users, member,
                                        [until |-> mute_until.t,
                                         reason |-> reason,
                                         moderator |-> moderator],
                                        timeout_exc)
           ELSE /\ mute_until.t <= MaxTime
                /\ muted_users' =
                     timeout_then_store(muted_users, member,
                                        [until |-> mute_until.t,
                                         reason |-> reason,
                                         moderator |-> moderator],
                                        timeout_exc)
                /\ last' = [op |-> "mute", user |-> member, result |-> "ok",
                            until |-> mute_until.t, reason |-> reason,
                            moderator |-> moderator,
                            had |-> Held(muted_users, member,
                                         [until |-> mute_until.t,
                                          reason |-> reason,
                                          moderator |-> moderator]),
                            steps |-> mute_steps, permitted |-> perm]
    /\ UNCHANGED <<now, banned, epoch, tasks, calls, logged, duration_str, parsed>>
    /\ UNCHANGED <<auxvars, sysvars>>

\* /unmute member
unmute_user(perm, member, timeout_exc) ==
    /\ CanRun
    /\ member \notin banned
    /\ ncmd' = ncmd + 1
    /\ IF Denied(perm)
       THEN /\ last' = Outcome(perm, "unmute", member, "permission_denied")
            /\ UNCHANGED muted_users
       ELSE IF timeout_exc # "ok"
       THEN /\ last' = Outcome(perm, "unmute", member, "error")
            /\ UNCHANGED muted_users
       ELSE /\ muted_users' = IF DictHas(muted_users, member)
                              THEN DictDel(muted_users, member)
                              ELSE muted_users
            /\ last' = [Outcome(perm, "unmute", member, "ok") EXCEPT
                          !.had = IF DictHas(muted_users, member)
                                  THEN "other" ELSE "absent"]
    /\ UNCHANGED <<now, banned, epoch, tasks, calls, logged, duration_str, parsed>>
    /\ UNCHANGED <<auxvars, sysvars>>

\* Faulty variant: the requested amount is passed on as it is.
cap_amount_off(amount) == amount

\* if amount > 100: amount = 100
cap_amount(amount) == IF amount > PurgeCap THEN PurgeCap ELSE amount

\* channel.purge(limit=..., check=...) looks at the newest `limit` messages
\* of the channel and deletes those the check accepts: none, one or all of
\* them.
PurgeResults(limit, messages) ==
    LET seen == IF limit < 0 THEN 0
                ELSE IF limit < messages THEN limit ELSE messages
    IN  {0, seen} \cup (IF seen > 0 THEN {1} ELSE {})

\* The amounts /clear is called with, and the sizes of the channel
Amounts == {-1, 0, 1, PurgeCap - 1, PurgeCap, PurgeCap + 1, 2 * PurgeCap}

ChannelSizes == {0, 2, PurgeCap, PurgeCap + 50}

\* /clear [amount]: after the purge the handler reports the count, logs the
\* command and then fails on the undefined names BotStats and db, which its
\* own except branch answers with the error embed.
clear_messages(perm, amount, purge_exc) ==
    /\ CanRun
    /\ ncmd' = ncmd + 1
    /\ IF Denied(perm)
       THEN /\ last' = Outcome(perm, "clear", "", "permission_denied")
            /\ UNCHANGED <<channel, purged>>
       ELSE IF purge_exc # "ok"
       THEN /\ last' = Outcome(perm, "clear", "", "error")
            /\ UNCHANGED <<channel, purged>>
       ELSE \E deleted \in PurgeResults(cap_amount(amount), channel) :
              /\ purged' = [amount |-> amount, limit |-> cap_amount(amount),
                            deleted |-> deleted, n |-> purged.n + 1]
              /\ channel' = channel - deleted
              /\ last' = [Outcome(perm, "clear", "", "ok") EXCEPT
                            !.steps = <<"defer", "channel.purge",
                                        "confirmation", "_log_command",
                                        "NameError", "error_embed",
                                        "_log_command">>]
    /\ UNCHANGED <<now, banned, epoch, muted_users, tasks, calls, logged,
                   duration_str, parsed, handlers, nerr>>
    /\ UNCHANGED sysvars

PlatformResults == {"ok", "Forbidden"}

\* The ban commands and the automatic unban tasks
BanNext ==
    \/ Tick
    \/ \E i \in TaskIds : TaskStart(i)
    \/ \E i \in TaskIds : TaskFire(i)
    \/ \E perm \in BOOLEAN, member \in Users, duration \in DurationArgs,
          exc \in PlatformResults : ban_user(perm, member, duration, exc)
    \/ \E perm \in BOOLEAN, user_id \in Users \cup {"abc"} :
          unban_user(perm, user_id)

\* The mute commands
MuteNext ==
    \/ Tick
    \/ \E perm \in BOOLEAN, member \in Users, duration \in DurationArgs,
          by \in Issuers, exc \in PlatformResults :
          mute_user(perm, member, duration, by.reason, by.moderator, exc)
    \/ \E perm \in BOOLEAN, member \in Users, exc \in PlatformResults :
          unmute_user(perm, member, exc)

Next == BanNext \/ MuteNext

Spec == Init /\ [][Next]_vars

\* ban_user, unban_user and _schedule_unban never read or write muted_users,
\* and mute_user and unmute_user never touch the ban list or the tasks: each
\* group of commands is also explored on its own.
BanSpec == Init /\ [][BanNext]_vars

MuteSpec == Init /\ [][MuteNext]_vars

\* The command handlers on their own, with no automatic unban running
CmdNext ==
    \/ Tick
    \/ \E perm \in BOOLEAN, member \in Users, duration \in DurationArgs,
          exc \in PlatformResults :
          ban_user(perm, member, duration, exc)
    \/ \E perm \in BOOLEAN, user_id \in Users \cup {"abc"} :
          unban_user(perm, user_id)
    \/ \E perm \in BOOLEAN, member \in Users, duration \in DurationArgs,
          by \in Issuers, exc \in PlatformResults :
          mute_user(perm, member, duration, by.reason, by.moderator, exc)
    \/ \E perm \in BOOLEAN, member \in Users, exc \in PlatformResults :
          unmute_user(perm, member, exc)

CmdSpec == Init /\ [][CmdNext]_vars

\* The /clear command on channels of several sizes
ClearInit ==
    /\ now = 0
    /\ ModerationInit
    /\ Connected
    /\ duration_str = <<>>
    /\ parsed = Unset
    /\ handlers = [h \in Handlers |-> NewErrorHandler]
    /\ nerr = 0
    /\ channel \in ChannelSizes
    /\ purged = NoPurge

ClearNext ==
    \E perm \in BOOLEAN, amount \in Amounts, exc \in PlatformResults :
        clear_messages(perm, amount, exc)

ClearSpec == ClearInit /\ [][ClearNext]_vars

-----------------------------------------------------------------------------
(* The parser on its own: one call on an arbitrary string at an arbitrary   *)
(* reading of the clock.                                                    *)

Alphabet == {"0", "1", "2", "s", "m", "h", "d", "M", "x", "-", " ", "\n"}

Strings == UNION {[1..n -> Alphabet] : n \in 0..MaxLen}

HugeStrings ==
    {Huge,
     <<"1", "0", "0", "0", "0", "0", "0", "0", "0", "0", "d">>,
     <<"9", "9", "9", "9", "9", "9", "9", "9", "H">>}

ParseInit ==
    /\ now \in 0..MaxTime
    /\ MainInit
    /\ Connected
    /\ duration_str \in Strings \cup HugeStrings
    /\ parsed = Unset

ParseCall ==
    /\ parsed = Unset
    /\ parsed' = parse_duration(duration_str, now)
    /\ UNCHANGED <<now, banned, epoch, muted_users, tasks, calls, logged, last,
                   ncmd, duration_str>>
    /\ UNCHANGED <<auxvars, sysvars>>

ParseSpec == ParseInit /\ [][ParseCall]_vars

-----------------------------------------------------------------------------
(* Start-up and the restart loop (main.py, config.py, bot.py) *)

\* The process has ended: the import failed, the restart loop ran out of
\* stack, or bot.run returned.
Ended == proc \in {"fatal", "exit1", "exited"}

\* Whether one more Python call fits on the stack
CanCall == depth + 1 <= RecursionLimit

\* python main.py: 'from bot import AdvancedDiscordBot' imports config, whose
\* last line builds the module-level BotConfig(); a ValueError there leaves
\* the import, which no try statement encloses, and ends the interpreter.
\* (bot.py imports config before the commands package; the other imports are
\* taken to succeed.)
ImportModules ==
    /\ proc = "import"
    /\ proc' = IF validate_config(token) = "ok" THEN "main" ELSE "fatal"
    /\ UNCHANGED <<now, modvars, token, running, flask_thread, depth, restarts,
                   attempts, ping_task, status_updater, bot_status, updating, published, page,
                   posting>>

\* BotSystem.run up to its call of start_bot
BotSystem_run ==
    /\ proc = "main"
    /\ running' = TRUE
    /\ flask_thread' = TRUE
    /\ proc' = "start_bot"
    /\ depth' = depth + 2
    /\ UNCHANGED <<now, modvars, token, restarts, attempts, ping_task, status_updater,
                   bot_status, updating, published, page,
                   posting>>

\* 'except Exception' of start_bot calls restart_bot; a call the stack has no
\* room for raises RecursionError, which no frame below handles before the
\* 'except Exception' at the bottom of main.py, and that one exits.
Failed ==
    /\ proc' = IF CanCall THEN "restart_bot" ELSE "exit1"
    /\ depth' = IF CanCall THEN depth + 1 ELSE 0

\* BotSystem.start_bot: build the bot, then bot.run(token)
start_bot ==
    /\ proc = "start_bot"
    /\ IF AdvancedDiscordBot(token) # "ok"
       THEN /\ Failed
            /\ UNCHANGED <<attempts, ping_task, status_updater>>
       ELSE /\ attempts' = attempts + 1
            /\ ping_task' = IdleLoop
            /\ status_updater' = IdleLoop
            /\ \E outcome \in ConnectOutcomes(token) :
                 IF outcome = "ok"
                 THEN proc' = "connected" /\ depth' = depth
                 ELSE Failed
    /\ UNCHANGED <<now, modvars, token, running, flask_thread, restarts,
                   bot_status, updating, published, page,
                   posting>>

\* BotSystem.restart_bot: time.sleep(10), then start_bot again
restart_bot ==
    /\ proc = "restart_bot"
    /\ restarts' = Append(restarts, RestartDelay)
    /\ proc' = IF CanCall THEN "start_bot" ELSE "exit1"
    /\ depth' = IF CanCall THEN depth + 1 ELSE 0
    /\ UNCHANGED <<now, modvars, token, running, flask_thread, attempts,
                   ping_task, status_updater, bot_status, updating, published, page,
                   posting>>

\* bot.run raises while the bot is connected (the connection is lost for
\* good): the event loop is closed, which ends its tasks, and run_bot
\* re-raises into start_bot.
bot_run_raises ==
    /\ proc = "connected"
    /\ updating = "idle"
    /\ Failed
    /\ ping_task' = IF ping_task.state = "running"
                    THEN [ping_task EXCEPT !.state = "stopped"] ELSE ping_task
    /\ status_updater' = IF status_updater.state = "running"
                         THEN [status_updater EXCEPT !.state = "stopped"]
                         ELSE status_updater
    /\ UNCHANGED <<now, modvars, token, running, flask_thread, restarts,
                   attempts, bot_status, updating, published, page,
                   posting>>

\* AdvancedDiscordBot.close: the periodic tasks are stopped and the
\* connection closed; bot.run then returns, start_bot and run return, and
\* the process ends, taking the daemon web thread with it.
close ==
    /\ proc = "connected"
    /\ updating = "idle"
    /\ status_updater' = stop_if_running(status_updater)
    /\ ping_task' = stop_if_running(ping_task)
    /\ proc' = "exited"
    /\ depth' = 0
    /\ UNCHANGED <<now, modvars, token, running, flask_thread, restarts,
                   attempts, bot_status, updating, published, page,
                   posting>>

StartInit ==
    /\ now = 0
    /\ MainInit
    /\ duration_str = <<>>
    /\ parsed = Unset
    /\ token \in Tokens
    /\ proc = "import"
    /\ running = FALSE
    /\ flask_thread = FALSE
    /\ depth = 1
    /\ restarts = <<>>
    /\ attempts = 0
    /\ ping_task = IdleLoop
    /\ status_updater = IdleLoop
    /\ bot_status = InitialStatus
    /\ updating = "idle"
    /\ posting = NoPost
    /\ published = NoPublication
    /\ page = NoPage

StartNext ==
    \/ ImportModules
    \/ BotSystem_run
    \/ start_bot
    \/ restart_bot
    \/ bot_run_raises
    \/ close

StartSpec == StartInit /\ [][StartNext]_vars

-----------------------------------------------------------------------------
(* The status publisher and the web endpoints (bot.py, keep_alive.py) *)

ElapseSteps == {10, 20}

\* Time passes.  A running tasks.loop starts its iteration when it is due,
\* and the two statements of update_bot_status run back to back.
Elapse(d) ==
    /\ now + d <= MaxClock
    /\ updating = "idle"
    /\ posting.pc = "idle"
    /\ proc = "connected" /\ ping_task.state = "running" => now + d <= ping_task.due
    /\ now' = now + d
    /\ UNCHANGED <<modvars, sysvars>>

\* on_ready: each periodic task is started unless it is running already
\* (tasks.loop runs the first iteration at once).
on_ready ==
    /\ proc = "connected"
    /\ updating = "idle"
    /\ status_updater' = start_unless_running(status_updater, now)
    /\ ping_task' = start_unless_running(ping_task, now)
    /\ UNCHANGED <<now, modvars, token, proc, running, flask_thread, depth,
                   restarts, attempts, bot_status, updating, published, page,
                   posting>>

\* The number of the publication that an update starting now will be: the
\* updates the two threads have under way come first.
next_publication ==
    published.n + 1 + (IF updating # "idle" THEN 1 ELSE 0)
                    + (IF posting.pc # "idle" THEN 1 ELSE 0)

\* One iteration of ping_task: the snapshot is collected and handed to
\* update_bot_status, whose first statement is bot_status.update(status_data);
\* an exception on the way is caught and logged.
ping_iteration(res) ==
    /\ proc = "connected"
    /\ ping_task.state = "running"
    /\ now >= ping_task.due
    /\ updating = "idle"
    /\ IF res = "ok"
       THEN /\ bot_status' = dict_update(bot_status,
                                         status_data(next_publication))
            /\ updating' = "last_ping"
            /\ ping_task' = [ping_task EXCEPT !.due = @ + PingPeriod,
                                              !.failed = FALSE]
       ELSE IF ping_task_catches(res)
       THEN /\ ping_task' = [ping_task EXCEPT !.due = @ + PingPeriod,
                                              !.failed = TRUE,
                                              !.faulted = TRUE]
            /\ UNCHANGED <<bot_status, updating>>
       ELSE /\ ping_task' = [ping_task EXCEPT !.state = "failed",
                                              !.failed = TRUE,
                                              !.faulted = TRUE]
            /\ UNCHANGED <<bot_status, updating>>
    /\ UNCHANGED <<now, modvars, token, proc, running, flask_thread, depth,
                   restarts, attempts, status_updater, published, page,
                   posting>>

\* The second statement of update_bot_status:
\* bot_status['last_ping'] = datetime.now(timezone.utc).isoformat()
update_bot_status_last_ping ==
    /\ updating = "last_ping"
    /\ bot_status' = stamp(bot_status, now)
    /\ published' = [n |-> published.n + 1, at |-> now]
    /\ updating' = "idle"
    /\ UNCHANGED <<now, modvars, token, proc, running, flask_thread, depth,
                   restarts, attempts, ping_task, status_updater, page,
                   posting>>

\* The web thread serves requests while the process lives.
Serving == flask_thread /\ ~Ended

\* GET /
status_page ==
    /\ Serving
    /\ page' = Response("/", status_page_online(bot_status, now),
                        status_page_age(bot_status, now),
                        bot_status.seq, bot_status.ping_seq)
    /\ UNCHANGED <<now, modvars, token, proc, running, flask_thread, depth,
                   restarts, attempts, ping_task, status_updater, bot_status, updating, published,
                   posting>>

\* GET /ping
ping ==
    /\ Serving
    /\ page' = Response("/ping", bot_status.online, 0, 0, 0)
    /\ UNCHANGED <<now, modvars, token, proc, running, flask_thread, depth,
                   restarts, attempts, ping_task, status_updater, bot_status, updating, published,
                   posting>>

\* GET /api/status
api_status ==
    /\ Serving
    /\ page' = Response("/api/status", bot_status.online, 0,
                        bot_status.seq, bot_status.ping_seq)
    /\ UNCHANGED <<now, modvars, token, proc, running, flask_thread, depth,
                   restarts, attempts, ping_task, status_updater, bot_status, updating, published,
                   posting>>

\* The JSON answer of POST /api/ping
Reply(code, body) ==
    [Response("/api/ping", FALSE, 0, 0, 0) EXCEPT !.code = code, !.body = body]

\* POST /api/ping up to the first statement of update_bot_status: the body
\* is parsed, an empty one is answered with 400, an error of get_json or of
\* bot_status.update with 500 (except Exception).
api_ping(body) ==
    /\ Serving
    /\ posting.pc = "idle"
    /\ posting.n < MaxPosts
    /\ \E data \in get_json(body) :
         IF data \in {"UnsupportedMediaType", "BadRequest"}
         THEN /\ page' = Reply(500, body)
              /\ posting' = [posting EXCEPT !.n = @ + 1]
              /\ UNCHANGED bot_status
         ELSE IF ~data_truthy(data)
         THEN /\ page' = Reply(400, body)
              /\ posting' = [posting EXCEPT !.n = @ + 1]
              /\ UNCHANGED bot_status
         ELSE IF data # "dict"
         THEN /\ page' = Reply(500, body)
              /\ posting' = [posting EXCEPT !.n = @ + 1]
              /\ UNCHANGED bot_status
         ELSE /\ bot_status' =
                   dict_update(bot_status, posted_data(body, next_publication))
              /\ posting' = [pc |-> "last_ping", body |-> body,
                             n |-> posting.n + 1]
              /\ UNCHANGED page
    /\ UNCHANGED <<now, modvars, token, proc, running, flask_thread, depth,
                   restarts, attempts, ping_task, status_updater, updating,
                   published>>

\* The rest of api_ping: the second statement of update_bot_status and the
\* success answer
api_ping_last_ping ==
    /\ Serving
    /\ posting.pc = "last_ping"
    /\ bot_status' = stamp(bot_status, now)
    /\ published' = [n |-> published.n + 1, at |-> now]
    /\ posting' = [posting EXCEPT !.pc = "idle", !.body = ""]
    /\ page' = Reply(200, posting.body)
    /\ UNCHANGED <<now, modvars, token, proc, running, flask_thread, depth,
                   restarts, attempts, ping_task, status_updater, updating>>

StatusInit ==
    /\ now = 0
    /\ MainInit
    /\ duration_str = <<>>
    /\ parsed = Unset
    /\ Connected

\* One connection of the bot, from the moment bot.run has connected.
StatusNext ==
    \/ \E d \in ElapseSteps : Elapse(d)
    \/ on_ready
    \/ \E res \in {"ok"} \cup PingFaults : ping_iteration(res)
    \/ update_bot_status_last_ping
    \/ bot_run_raises
    \/ close
    \/ status_page
    \/ ping
    \/ api_status

StatusSpec == StatusInit /\ [][StatusNext]_vars

\* The two writers of the snapshot: the bot's ping_task and snapshots
\* posted to /api/ping from outside
PostNext ==
    \/ \E d \in ElapseSteps : Elapse(d)
    \/ on_ready
    \/ ping_iteration("ok")
    \/ update_bot_status_last_ping
    \/ \E body \in Bodies : api_ping(body)
    \/ api_ping_last_ping

PostSpec == StatusInit /\ [][PostNext]_vars

-----------------------------------------------------------------------------
(* The error handlers (bot.py, commands/base_command.py, error_handler.py) *)

CanHandle == nerr < MaxErrs

\* on_command_error of bot.py: the bot's own ErrorHandler handles the error
on_command_error ==
    /\ CanHandle
    /\ nerr' = nerr + 1
    /\ handlers' = [handlers EXCEPT
                        !["bot"] = command_error_handled(@, now, nerr + 1)]
    /\ UNCHANGED <<now, cmdvars, channel, purged, sysvars>>

\* BaseCommand.cog_command_error: global_error_handler handles the error
cog_command_error ==
    /\ CanHandle
    /\ nerr' = nerr + 1
    /\ handlers' = [handlers EXCEPT
                        !["global"] = command_error_handled(@, now, nerr + 1)]
    /\ UNCHANGED <<now, cmdvars, channel, purged, sysvars>>

\* ErrorHandler.handle_task_error on either object
handle_task_error(h) ==
    /\ CanHandle
    /\ nerr' = nerr + 1
    /\ handlers' = [handlers EXCEPT
                        ![h] = task_error_handled(@, now, nerr + 1)]
    /\ UNCHANGED <<now, cmdvars, channel, purged, sysvars>>

\* The bot's handler has a backlog of command errors; the global one is new.
ErrInit ==
    /\ now = 0
    /\ ModerationInit
    /\ Connected
    /\ duration_str = <<>>
    /\ parsed = Unset
    /\ \E n \in Backlog :
           handlers = [h \in Handlers |->
                          IF h = "bot" THEN Backlogged(n) ELSE NewErrorHandler]
    /\ nerr = 0
    /\ channel = 0
    /\ purged = NoPurge

ErrNext ==
    \/ Tick
    \/ on_command_error
    \/ cog_command_error
    \/ \E h \in Handlers : handle_task_error(h)

ErrSpec == ErrInit /\ [][ErrNext]_vars

-----------------------------------------------------------------------------
(* Properties *)

CallsOf(u) == calls[u]

\* The calls task i has made to guild.unban
OwnCalls(i) ==
    {k \in DOMAIN CallsOf(tasks[i].user) : CallsOf(tasks[i].user)[k].by = i}

\* The calls scheduled tasks have made for user u while ban number e was the
\* user's latest ban
ScheduledCallsFor(u, e) ==
    {k \in DOMAIN CallsOf(u) : CallsOf(u)[k].by # 0 /\ CallsOf(u)[k].epoch = e}

\* A manual /unban of u was issued while an automatic unban of u was pending
ManualLiftRaced(u) ==
    \E k \in DOMAIN CallsOf(u) : CallsOf(u)[k].by = 0 /\ CallsOf(u)[k].racing

\* Task i can take its next step
CanStep(i) == ENABLED (TaskStart(i) \/ TaskFire(i))

\* A step the bot takes on its own, without a command
ScheduledStep == \E i \in TaskIds : TaskStart(i) \/ TaskFire(i)

\* C1: when a manual lift of a timed ban has succeeded, the automatic unban
\* armed by that ban makes no second reversal call for the same ban: a manual
\* lift and the scheduled reversal never both call the platform for one
\* restriction.
C1_ExactlyOneReversal ==
    \A i \in DOMAIN tasks :
        LET c == CallsOf(tasks[i].user)
        IN  \A k \in DOMAIN c, j \in DOMAIN c :
                ~ /\ k < j
                  /\ c[k].by = 0 /\ c[k].exc = "ok" /\ c[k].epoch = tasks[i].epoch
                  /\ c[j].by = i /\ c[j].epoch = tasks[i].epoch

\* C2: at every instant at most one automatic unban is pending per user.
C2_OnePendingTaskPerSubject ==
    \A u \in Users : Cardinality(PendingFor(u)) <= 1

\* C3: muted_users holds at most one entry per member, and after a successful
\* /mute the member's entry is exactly the new expiry, reason and moderator.
C3_OneRecordPerSubject ==
    /\ \A u \in Users : Cardinality({e \in muted_users : e.id = u}) <= 1
    /\ last.op = "mute" /\ last.result = "ok" =>
         {e \in muted_users : e.id = last.user}
           = {[id |-> last.user, until |-> last.until, reason |-> last.reason,
               moderator |-> last.moderator]}

\* A successful /mute of a member whose entry held other values before.
C3_Witness ==
    last.op = "mute" /\ last.result = "ok" /\ last.had = "other"

C5_NoDanglingRecord ==
    (~ENABLED ScheduledStep) => \A e \in muted_users : e.until >= now

\* C6: a task whose delay is zero or negative when it starts is not put to
\* sleep and not dropped: it can make its unban call at once, and when it has
\* finished it has made exactly one call.
C6_PastExpiryFiresImmediately ==
    \A i \in DOMAIN tasks :
        tasks[i].pc # "created" /\ tasks[i].delay <= 0 =>
            /\ tasks[i].pc \in {"ready", "done"}
            /\ tasks[i].pc = "ready" => ENABLED TaskFire(i)
            /\ tasks[i].pc = "done" => Cardinality(OwnCalls(i)) = 1

\* A task that started after its expiry instant and made its call.
C6_Witness ==
    \E i \in DOMAIN tasks :
        tasks[i].delay = -1 /\ tasks[i].pc = "done" /\ OwnCalls(i) # {}

\* C7: a failed unban call never ends a task with an escaping exception: the
\* task finishes, the error is logged (and only failures are logged), every
\* other task that is due can still take its step, and commands are still
\* handled.
C7_FailedReversalSwallowed ==
    \A i \in DOMAIN tasks :
        /\ tasks[i].pc # "crashed"
        /\ \A k \in OwnCalls(i) :
              CallsOf(tasks[i].user)[k].exc # "ok" =>
                  tasks[i].pc = "done" /\ i \in logged
        /\ i \in logged =>
              \E k \in OwnCalls(i) : CallsOf(tasks[i].user)[k].exc # "ok"
        /\ \A j \in DOMAIN tasks :
              /\ j # i /\ i \in logged
              /\ \/ tasks[j].pc \in {"created", "ready"}
                 \/ tasks[j].pc = "sleeping" /\ now >= tasks[j].unban_time
              => CanStep(j)
        /\ i \in logged /\ CanRun => ENABLED unban_user(TRUE, tasks[i].user)

\* One task's unban call failed and was logged; another task lifted its ban.
C7_Witness ==
    \E i \in DOMAIN tasks, j \in DOMAIN tasks :
        /\ i # j
        /\ i \in logged /\ tasks[i].pc = "done"
        /\ j \notin logged /\ tasks[j].pc = "done"
        /\ \E k \in OwnCalls(j) : CallsOf(tasks[j].user)[k].exc = "ok"

\* The strings <n><unit> of the parser's contract, in either letter case
ClaimUnits == {"s", "m", "h", "d", "S", "M", "H", "D"}

WellFormed(s) ==
    /\ Len(s) >= 2
    /\ \A i \in 1..(Len(s) - 1) : s[i] \in Digits
    /\ s[Len(s)] \in ClaimUnits

Amount(s) == int(SubSeq(s, 1, Len(s) - 1))

ClaimUnitSeconds(c) ==
    CASE c \in {"s", "S"} -> 1 [] c \in {"m", "M"} -> 60
      [] c \in {"h", "H"} -> 3600 [] c \in {"d", "D"} -> 86400

\* C8: for every string <n><unit> with n > 0, the parser returns the instant
\* now + n * unit_length.
C8_ParsesEveryPositiveAmount ==
    parsed # Unset /\ WellFormed(duration_str) /\ Amount(duration_str) > 0 =>
        /\ parsed.kind = "datetime"
        /\ parsed.t = now + Amount(duration_str)
                              * ClaimUnitSeconds(duration_str[Len(duration_str)])

\* C9: a string <n><unit> whose digits are all zero parses to the invalid
\* result.
C9_ZeroAmountInvalid ==
    /\ parsed # Unset
    /\ WellFormed(duration_str)
    /\ \A i \in 1..(Len(duration_str) - 1) : duration_str[i] = "0"
    => parsed = None

\* C10: every string that is not of the form <digits><s|m|h|d> parses to the
\* invalid result, and the parser does not raise.
C10_NonMatchingInvalid ==
    parsed # Unset /\ ~WellFormed(duration_str) => parsed = None

\* The strings the parser's contract accepts: <positive integer><unit>
SpecValid(s) == WellFormed(s) /\ Amount(s) > 0

\* C11: every entry a successful /mute stores in muted_users has an expiry
\* strictly later than the instant of the command.
C11_ExpiryAfterCreation ==
    [][\A member \in Users, duration \in DurationArgs, by \in Issuers :
          /\ mute_user(TRUE, member, duration, by.reason, by.moderator, "ok")
          /\ last'.result = "ok"
          => \A e \in muted_users' : e.id = member => e.until > now]_vars

\* C12: whenever the last completed publication is more than 60 seconds old,
\* GET /ping answers bot_online = false.
C12_PingReportsStaleOffline ==
    [][ping /\ published.n > 0 /\ now - published.at > OnlineThreshold
          => ~page'.online]_vars

\* C13: a response that shows the snapshot never shows status fields written
\* by one publication together with a last_ping written by another.
C13_SnapshotReadWhole ==
    page.route \in {"/", "/api/status"} => page.seq = page.ping_seq

C15_InvalidDurationNoEffect ==
    [][/\ \A member \in Users, duration \in DurationArgs \ {<<>>},
             exc \in PlatformResults :
             ban_user(TRUE, member, duration, exc) /\ ~SpecValid(duration)
               => /\ last'.result = "invalid_duration"
                  /\ UNCHANGED <<banned, epoch, tasks, calls, muted_users>>
       /\ \A member \in Users, duration \in DurationArgs, by \in Issuers,
             exc \in PlatformResults :
             /\ mute_user(TRUE, member, duration, by.reason, by.moderator, exc)
             /\ ~SpecValid(duration)
             => /\ last'.result = "invalid_duration"
                /\ UNCHANGED <<banned, epoch, tasks, calls, muted_users>>]_vars

\* The place of step x in a handler run, 0 when the run has no such step
Position(steps, x) ==
    IF \E i \in DOMAIN steps : steps[i] = x
    THEN CHOOSE i \in DOMAIN steps : steps[i] = x
    ELSE 0

\* C16: in every successful timed /ban or /mute the expiry is parsed first,
\* the confirmation is sent, and whatever the command arms or stores (the
\* automatic unban, the muted_users entry) comes after the parse and before
\* the confirmation, the arming before the storing.
C16_ConfirmationAfterArming ==
    last.result = "ok" /\ Position(last.steps, "parsed") > 0 =>
        LET parse == Position(last.steps, "parsed")
            armed == Position(last.steps, "create_task")
            stored == Position(last.steps, "muted_users")
            confirmed == Position(last.steps, "confirmation")
        IN  /\ parse = 1
            /\ confirmed > 0
            /\ armed > 0 => parse < armed /\ armed < confirmed
            /\ stored > 0 => parse < stored /\ stored < confirmed
            /\ armed > 0 /\ stored > 0 => armed < stored

\* C17: with no credential the process never gets past the import: it is
\* importing or has ended in the fatal error, no connection has been
\* attempted, BotSystem.running was never set and the web thread never
\* started.
C17_MissingCredentialFatal ==
    token = "" =>
        /\ proc \in {"import", "fatal"}
        /\ proc = "import" => ENABLED ImportModules
        /\ attempts = 0
        /\ ~running
        /\ ~flask_thread

\* The process has ended in the fatal error.
C17_Witness ==
    token = "" /\ proc = "fatal" /\ attempts = 0

\* C18: the restart loop backs off (every restart waits longer than the one
\* before) and it ends by giving up, never by running out of stack.
C18_BoundedRestartWithBackoff ==
    /\ \A k \in 1..(Len(restarts) - 1) : restarts[k + 1] > restarts[k]
    /\ proc # "exit1"

\* C19: for every string <digits><unit>, however large the amount, the parser
\* returns an instant or the invalid result and does not raise.
C19_HugeAmountNoFault ==
    parsed # Unset /\ WellFormed(duration_str) =>
        parsed.kind \in {"datetime", "None"}

-----------------------------------------------------------------------------
\* The entries every handler's history holds
HistoryEntries ==
    UNION {{handlers[h].error_history[i] :
                i \in DOMAIN handlers[h].error_history} : h \in Handlers}

\* C21: after any sequence of handle_command_error and handle_task_error
\* calls a handler's error history holds at most 100 entries, and they are
\* the errors it handled most recently, in the order they arrived.
C21_HistoryBounded ==
    \A h \in Handlers :
        LET eh == handlers[h]
            n == Len(eh.error_history)
        IN  /\ n <= HistoryLimit
            /\ \A i \in 1..n :
                   eh.error_history[i].error_id.count = eh.error_count - n + i

\* C22: every handled error gets an incrementing correlation id: a handler's
\* newest entry carries its error_count, and no two handled errors have the
\* same error id.
C22_UniqueErrorIds ==
    /\ \A h \in Handlers :
           LET eh == handlers[h]
               n == Len(eh.error_history)
           IN  n > 0 => eh.error_history[n].error_id.count = eh.error_count
    /\ \A e1, e2 \in HistoryEntries :
           e1.error_id = e2.error_id => e1.error = e2.error

Min(a, b) == IF a < b THEN a ELSE b

\* C23: /clear never asks the platform to purge more than 100 messages: the
\* limit passed to purge is min(amount, 100) for every requested amount, and
\* the number of messages reported deleted never exceeds 100.
C23_PurgeCapped ==
    purged.n > 0 =>
        /\ purged.limit = Min(purged.amount, 100)
        /\ purged.limit <= 100
        /\ purged.deleted <= 100

\* C23 witness: more than 100 messages were asked for in a channel holding
\* more than 100, and 100 were deleted.
C23_Witness ==
    /\ purged.n > 0
    /\ purged.amount > 100
    /\ purged.deleted = 100
    /\ channel > 0

\* C24: a scheduled automatic unban lifts only the timed ban that armed it:
\* when the subject was unbanned by hand and banned again before the first
\* expiry, the first ban's task does not lift the later ban, so the subject
\* is still banned after the first expiry has passed.
C24_LiftsOnlyOwnBan ==
    \A u \in Users : \A k \in DOMAIN CallsOf(u) :
        LET c == CallsOf(u)[k]
        IN  c.by # 0 /\ c.exc = "ok" /\ tasks[c.by].superseded
                => c.epoch = tasks[c.by].epoch

\* C25: when the platform call that applies a restriction fails, no local
\* restriction state is created: a /mute whose member.timeout raises leaves
\* muted_users as it was, and a /ban whose member.ban raises schedules no
\* automatic unban.
C25_FailedCallNoLocalState ==
    [][/\ (ncmd' # ncmd /\ last'.op = "mute" /\ last'.result = "error")
              => muted_users' = muted_users
       /\ (ncmd' # ncmd /\ last'.op = "ban" /\ last'.result = "error")
              => tasks' = tasks /\ banned' = banned]_vars

\* C25 witness: member.timeout raised in a /mute with a valid duration for a
\* member with no record, while an earlier timed ban has its task armed.
C25_Witness ==
    /\ last.op = "mute"
    /\ last.result = "error"
    /\ last.steps = <<"parsed", "member.timeout">>
    /\ ~DictHas(muted_users, last.user)
    /\ tasks # <<>>

C27_UnmuteRemovesOnSuccess ==
    [][/\ (ncmd' # ncmd /\ last'.op = "unmute" /\ last'.result = "ok")
              => /\ ~DictHas(muted_users', last'.user)
                 /\ muted_users' = {e \in muted_users : e.id # last'.user}
       /\ (ncmd' # ncmd /\ last'.op = "unmute" /\ last'.result # "ok")
              => muted_users' = muted_users
       /\ \A member \in Users :
              (unmute_user(TRUE, member, "ok") /\ ~DictHas(muted_users, member))
                  => last'.result = "ok" /\ muted_users' = muted_users]_vars

\* C27 witness: a successful unmute of a subject that had a record, while the
\* other subject's record stays in the table.
C27_Witness ==
    /\ last.op = "unmute"
    /\ last.result = "ok"
    /\ last.had = "other"
    /\ muted_users # {}

C29_LastPingIsCallInstant ==
    [][published'.n # published.n =>
           /\ bot_status'.last_ping = [set |-> TRUE, t |-> now', tz |-> "+00:00"]
           /\ bot_status'.last_ping # SuppliedPing
           /\ bot_status'.last_ping.t >= published.at]_vars

\* C29 witness: a posted snapshot that carried its own last_ping has been
\* taken in as the third publication or later, after time has passed.
C29_Witness ==
    /\ page.route = "/api/ping"
    /\ page.code = 200
    /\ page.body = "stamped"
    /\ posting.pc = "idle"
    /\ updating = "idle"
    /\ published.n >= 3
    /\ published.at = now
    /\ now > 0
    /\ bot_status.last_ping.t = now

\* C30: POST /api/ping with a missing or empty JSON body is answered with 400
\* and leaves the stored snapshot, last_ping included, unchanged; only a
\* non-empty body updates the snapshot and is answered with success.
C30_EmptyPostRejected ==
    [][/\ (page' # page /\ page'.route = "/api/ping"
                        /\ page'.body \in {"absent", "blank", "{}"})
              => page'.code = 400 /\ bot_status' = bot_status
       /\ (page' # page /\ page'.route = "/api/ping" /\ page'.code = 200)
              => page'.body \notin {"absent", "blank", "{}"}
       /\ posting'.pc # "idle"
              => posting'.body \notin {"absent", "blank", "{}"}]_vars

====
